---------------------------- MODULE Spec2Model ----------------------------
(***************************************************************************)
(* Model of the multi-task DeepLabV3+ network with cross-task attention    *)
(* (mtl/models/model_parts.py, mtl/models/model_attention.py).             *)
(*                                                                         *)
(* A tensor is modelled by its shape without the batch axis (c, h, w), by  *)
(* the layer that produced it (by), by the producers of that layer's       *)
(* inputs (of) and by the origin of each of its channels (chans, a list of *)
(* channel ranges of producing layers).  Layers are modelled by the shape  *)
(* arithmetic of the tensor library and by the identity of what they       *)
(* consume and produce.  Numeric values are followed only through the      *)
(* SelfAttention gate, at one sampled output position.                     *)
(***************************************************************************)
EXTENDS Integers, Sequences, FiniteSets, TLC

VARIABLES model, result, encoder, pyramid

vars == <<model, result, encoder, pyramid>>

---------------------------------------------------------------------------
(* Bounds of the model.                                                    *)

\* outputs_desc has at most MaxTasks entries
MaxTasks == 3
\* each task declares 1..MaxCh output channels
MaxCh == 2
\* the model is fed images whose sides are 4, 8, .., 4 * MaxSide
MaxSide == 6
\* a stand-alone Encoder is fed images whose sides are 1..MaxSmallSide ...
MaxSmallSide == 8
\* ... or 32, 64, .., 32 * MaxMult32
MaxMult32 == 2
\* seeds of the random default initialisation of convolution weights
MaxSeed == 2
\* feature values sampled at the probed position are in -MaxVal..MaxVal
MaxVal == 1

---------------------------------------------------------------------------
(* Tensors.                                                                *)

Min(a, b) == IF a < b THEN a ELSE b

Max(a, b) == IF a > b THEN a ELSE b

\* the outcome of an operation that raised
ERR == [c |-> 0, h |-> 0, w |-> 0, by |-> <<"", "error">>, of |-> <<>>, chans |-> <<>>]

IsErr(t) == t.by = ERR.by

\* a tensor freshly produced by `by` from inputs produced by `of`
Fresh(c, h, w, by, of) ==
    [c |-> c, h |-> h, w |-> w, by |-> by, of |-> of,
     chans |-> <<[by |-> by, lo |-> 1, hi |-> c]>>]

\* the RGB input image x of shape (N, 3, h, w)
Image(h, w) == Fresh(3, h, w, <<"input", "x">>, <<>>)

\* output extent of a convolution or pooling window along one axis
ConvOut(n, k, s, p, d) == ((n + 2 * p - d * (k - 1) - 1) \div s) + 1

\* torch.nn.Conv2d (with the norm and activation that follow it, which keep
\* the shape): raises on a channel mismatch, on an empty weight and on a
\* window larger than the padded input
Conv2d(x, in_ch, out_ch, k, s, p, d, by) ==
    IF \/ IsErr(x)
       \/ x.c # in_ch
       \/ out_ch < 1
       \/ x.h + 2 * p < d * (k - 1) + 1
       \/ x.w + 2 * p < d * (k - 1) + 1
    THEN ERR
    ELSE Fresh(out_ch, ConvOut(x.h, k, s, p, d), ConvOut(x.w, k, s, p, d), by, <<x.by>>)

\* F.interpolate(x, size=(h, w)): a new tensor with the channels of x
Interpolate(x, h, w) ==
    IF IsErr(x) \/ h < 1 \/ w < 1
    THEN ERR
    ELSE [c |-> x.c, h |-> h, w |-> w, by |-> <<"F", "interpolate">>,
          of |-> <<x.by>>, chans |-> x.chans]

RECURSIVE CatChans(_)
CatChans(ts) == IF ts = <<>> THEN <<>> ELSE Head(ts).chans \o CatChans(Tail(ts))

RECURSIVE SumC(_)
SumC(ts) == IF ts = <<>> THEN 0 ELSE Head(ts).c + SumC(Tail(ts))

\* torch.cat(ts, dim=1): raises unless all spatial sizes agree
Cat(ts) ==
    IF \/ \E i \in 1..Len(ts) : IsErr(ts[i])
       \/ \E i \in 1..Len(ts) : ts[i].h # ts[1].h \/ ts[i].w # ts[1].w
    THEN ERR
    ELSE [c |-> SumC(ts), h |-> ts[1].h, w |-> ts[1].w, by |-> <<"torch", "cat">>,
          of |-> [i \in 1..Len(ts) |-> ts[i].by], chans |-> CatChans(ts)]

\* the origin of every channel of t, one entry per channel
RECURSIVE Labels(_)
Labels(chans) ==
    IF chans = <<>> THEN <<>>
    ELSE [k \in 1..(Head(chans).hi - Head(chans).lo + 1) |->
             [by |-> Head(chans).by, ch |-> Head(chans).lo + k - 1]]
         \o Labels(Tail(chans))

\* t[:, lo:hi, :, :] with Python's clamping of slice bounds (0-based, hi
\* exclusive); a view of the channels lo..hi-1 of t
SliceChannels(t, lo, hi) ==
    LET n  == t.c
        a  == Min(lo, n)
        b  == Max(a, Min(hi, n))
        ls == SubSeq(Labels(t.chans), a + 1, b)
    IN  [c |-> b - a, h |-> t.h, w |-> t.w, by |-> t.by, of |-> t.of,
         chans |-> [k \in 1..Len(ls) |-> [by |-> ls[k].by, lo |-> ls[k].ch, hi |-> ls[k].ch]]]

---------------------------------------------------------------------------
(* Encoder.                                                                *)

_basic_block_layers == {"resnet18", "resnet34"}

EncoderNames == {"resnet34", "resnet50"}

get_encoder_channel_counts(encoder_name) ==
    LET is_basic_block == encoder_name \in _basic_block_layers
    IN  [ch_out_encoder_bottleneck |-> IF is_basic_block THEN 512 ELSE 2048,
         ch_out_encoder_4x         |-> IF is_basic_block THEN 64 ELSE 256]

\* EncoderInit with the padding of a flagged stage set but its dilation
\* left at 1
EncoderInit_PaddingOnly(name, replace_stride_with_dilation) ==
    [name      |-> name,
     replace_stride_with_dilation |-> replace_stride_with_dilation,
     expansion |-> IF name \in _basic_block_layers THEN 1 ELSE 4,
     stride    |-> [i \in 1..4 |->
                       IF i > 1 /\ ~replace_stride_with_dilation[i - 1] THEN 2 ELSE 1],
     conv2     |-> [i \in 1..4 |->
                       IF i > 1 /\ replace_stride_with_dilation[i - 1]
                       THEN <<2, 1>> ELSE <<1, 1>>]]

\* EncoderInit with the flags not handed on to the backbone, whose stages
\* keep their stride
EncoderInit_KeepStride(name, replace_stride_with_dilation) ==
    [name      |-> name,
     replace_stride_with_dilation |-> replace_stride_with_dilation,
     expansion |-> IF name \in _basic_block_layers THEN 1 ELSE 4,
     stride    |-> [i \in 1..4 |-> IF i > 1 THEN 2 ELSE 1],
     conv2     |-> [i \in 1..4 |->
                       IF i > 1 /\ replace_stride_with_dilation[i - 1]
                       THEN <<2, 2>> ELSE <<1, 1>>]]

\* Encoder._create: the backbone is built with the stride of layer2..layer4
\* replaced by dilation where the flag is set (stride 1 instead of 2), and
\* the second convolution of the first block of a flagged stage gets
\* padding 2 and dilation 2.  conv2[i] is that convolution's
\* <<padding, dilation>> in stage i
EncoderInit(name, replace_stride_with_dilation) ==
    [name      |-> name,
     replace_stride_with_dilation |-> replace_stride_with_dilation,
     expansion |-> IF name \in _basic_block_layers THEN 1 ELSE 4,
     stride    |-> [i \in 1..4 |->
                       IF i > 1 /\ ~replace_stride_with_dilation[i - 1] THEN 2 ELSE 1],
     conv2     |-> [i \in 1..4 |->
                       IF i > 1 /\ replace_stride_with_dilation[i - 1]
                       THEN <<2, 2>> ELSE <<1, 1>>]]

\* residual stage i: the first block's strided 3x3 convolution followed by
\* its second 3x3 convolution; the later blocks keep the shape
ResLayer(enc, x, i, planes) ==
    LET c1 == Conv2d(x, x.c, planes, 3, enc.stride[i], 1, 1, <<"encoder", "layer.conv1">>)
    IN  Conv2d(c1, planes, planes * enc.expansion, 3, 1, enc.conv2[i][1], enc.conv2[i][2],
               <<"encoder", "layer">>)

\* the tensors Encoder.forward hands to update_skip_dict, in order: the stem
\* (conv1 7x7 stride 2 padding 3), maxpool (3x3 stride 2 padding 1), layer1..4
EncoderStages(enc, x) ==
    LET s1 == Conv2d(x, 3, 64, 7, 2, 3, 1, <<"encoder", "conv1">>)
        s2 == Conv2d(s1, 64, 64, 3, 2, 1, 1, <<"encoder", "maxpool">>)
        s3 == ResLayer(enc, s2, 1, 64)
        s4 == ResLayer(enc, s3, 2, 128)
        s5 == ResLayer(enc, s4, 3, 256)
        s6 == ResLayer(enc, s5, 4, 512)
    IN  <<s1, s2, s3, s4, s5, s6>>

\* Encoder.update_skip_dict: x stored under its downscale factor; the
\* assertion fails when the input width is no multiple of x's width
update_skip_dict(skips, x, sz_in) ==
    LET rem   == sz_in % x.w
        scale == sz_in \div x.w
    IN  IF rem # 0
        THEN [ok |-> FALSE, out |-> skips.out]
        ELSE [ok |-> TRUE,
              out |-> [k \in (DOMAIN skips.out) \cup {scale} |->
                          IF k = scale THEN x ELSE skips.out[k]]]

RECURSIVE UpdateAll(_, _, _)
UpdateAll(skips, xs, sz_in) ==
    IF xs = <<>> \/ ~skips.ok THEN skips
    ELSE UpdateAll(update_skip_dict(skips, Head(xs), sz_in), Tail(xs), sz_in)

\* Encoder.forward: [ok, out], out the feature pyramid when ok, and
\* ok = FALSE when an assertion of update_skip_dict failed
EncoderForward(enc, x) ==
    LET out   == [k \in {1} |-> x]
        sz_in == x.w
    IN  UpdateAll([ok |-> TRUE, out |-> out], EncoderStages(enc, x), sz_in)

\* max(features.keys())
MaxKey(features) == CHOOSE k \in DOMAIN features : \A j \in DOMAIN features : j <= k

---------------------------------------------------------------------------
(* A stand-alone Encoder.                                                  *)

NoEncoder ==
    [name |-> "", replace_stride_with_dilation |-> <<>>, expansion |-> 0, stride |-> <<>>,
     conv2 |-> <<>>]

NoFeatures == [k \in {} |-> ERR]

NoPyramid == [status |-> "none", x |-> ERR, out |-> NoFeatures]

EncoderSides == (1..MaxSmallSide) \cup {32 * k : k \in 1..MaxMult32}

Flags == [1..3 -> BOOLEAN]

ConstructEncoder(name, flags) ==
    /\ encoder = NoEncoder
    /\ encoder' = EncoderInit(name, flags)
    /\ UNCHANGED <<model, result, pyramid>>

CallEncoder(h, w) ==
    /\ encoder # NoEncoder
    /\ LET x == Image(h, w)
           r == EncoderForward(encoder, x)
       IN  pyramid' = IF r.ok
                      THEN [status |-> "ok", x |-> x, out |-> r.out]
                      ELSE [status |-> "AssertionError", x |-> x, out |-> NoFeatures]
    /\ UNCHANGED <<model, result, encoder>>

---------------------------------------------------------------------------
(* ASPP.                                                                   *)

\* ASPP.__init__: the pooling layer is built with a (1, 1) window, and its
\* stride defaults to that window
ASPPInit(in_channels, out_channels, rates) ==
    [in_channels  |-> in_channels,
     out_channels |-> out_channels,
     rates        |-> rates,
     avg_pool     |-> [kernel_size |-> <<1, 1>>, stride |-> <<1, 1>>]]

\* torch.nn.AvgPool2d.forward with the layer's current window and stride
AvgPool2d(x, pool) ==
    IF \/ IsErr(x)
       \/ pool.kernel_size[1] > x.h
       \/ pool.kernel_size[2] > x.w
    THEN ERR
    ELSE [c |-> x.c,
          h |-> ConvOut(x.h, pool.kernel_size[1], pool.stride[1], 0, 1),
          w |-> ConvOut(x.w, pool.kernel_size[2], pool.stride[2], 0, 1),
          by |-> <<"aspp", "avg_pool">>, of |-> <<x.by>>, chans |-> x.chans]

\* ASPPKernel with the window left as the previous call set it
ASPPKernel_Stale(aspp, x) == aspp.avg_pool.kernel_size

\* ASPPKernel with the window taken square, from the input's height
ASPPKernel_Square(aspp, x) == <<x.h, x.h>>

\* the window ASPP.forward pools with on input x
ASPPKernel(aspp, x) == <<x.h, x.w>>

\* ASPP.forward: [out, pooled, avg_pool], the returned tensor, the output of
\* the pooling layer and the pooling layer's attributes after the call
ASPPForward(aspp, x, name) ==
    LET i  == aspp.in_channels
        o  == aspp.out_channels
        r  == aspp.rates
        conv1x1   == Conv2d(x, i, o, 1, 1, 0, 1, <<name, "conv_1">>)
        conv3x3_1 == Conv2d(x, i, o, 3, 1, r[1], r[1], <<name, "conv_2">>)
        conv3x3_2 == Conv2d(x, i, o, 3, 1, r[2], r[2], <<name, "conv_3">>)
        conv3x3_3 == Conv2d(x, i, o, 3, 1, r[3], r[3], <<name, "conv_4">>)
        reached   == ~IsErr(conv1x1) /\ ~IsErr(conv3x3_1) /\ ~IsErr(conv3x3_2)
                     /\ ~IsErr(conv3x3_3)
        avg_pool  == IF reached
                     THEN [aspp.avg_pool EXCEPT !.kernel_size = ASPPKernel(aspp, x)]
                     ELSE aspp.avg_pool
        pooled    == IF reached THEN AvgPool2d(x, avg_pool) ELSE ERR
        global1   == Conv2d(pooled, i, o, 1, 1, 1, 1, <<name, "conv1x1_global">>)
        global2   == Interpolate(global1, x.h, x.w)
        feature_cat == Cat(<<conv1x1, conv3x3_1, conv3x3_2, conv3x3_3, global2>>)
        conv_cat  == Conv2d(feature_cat, o * 5, o, 1, 1, 0, 1, <<name, "conv_final">>)
    IN  [out |-> conv_cat, pooled |-> pooled, avg_pool |-> avg_pool]

---------------------------------------------------------------------------
(* DecoderDeeplabV3p.                                                      *)

n_skip == 48

DecoderDeeplabV3pInit(bottleneck_ch, skip_4x_ch, num_out_ch) ==
    [bottleneck_ch |-> bottleneck_ch, skip_4x_ch |-> skip_4x_ch, num_out_ch |-> num_out_ch]

\* DecoderDeeplabV3p.forward: ret is the returned pair, feature_cat the
\* output of conv3x3_final, which features_to_predictions consumes
DecoderDeeplabV3pForward(dec, features_bottleneck, features_skip_4x, name) ==
    LET features_bottleneck_4x ==
            Interpolate(features_bottleneck, features_skip_4x.h, features_skip_4x.w)
        features_skip_4x_reduced ==
            Conv2d(features_skip_4x, dec.skip_4x_ch, n_skip, 1, 1, 0, 1,
                   <<name, "conv1x1_skip">>)
        cat == Cat(<<features_bottleneck_4x, features_skip_4x_reduced>>)
        feature_cat ==
            Conv2d(cat, dec.bottleneck_ch + n_skip, dec.bottleneck_ch, 3, 1, 1, 1,
                   <<name, "conv3x3_final">>)
        predictions ==
            Conv2d(feature_cat, dec.bottleneck_ch, dec.num_out_ch, 3, 1, 0, 1,
                   <<name, "features_to_predictions">>)
    IN  [ret |-> <<predictions,
                   IF IsErr(predictions) THEN ERR ELSE features_bottleneck_4x>>,
         feature_cat |-> feature_cat]

---------------------------------------------------------------------------
(* SelfAttention.                                                          *)

\* the weights of a 3x3 convolution are followed at two taps
Taps == 1..2

Vals == (0 - MaxVal)..MaxVal

Patches == [Taps -> Vals]

Seeds == 1..MaxSeed

\* the random default initialisation of a convolution's weight under a
\* seed: never all zero
DefaultWeight(seed, salt) == [k \in Taps |-> ((seed + salt + 2 * k) % 5) - 2]

ZerosLike(weight) == [k \in DOMAIN weight |-> 0]

\* AttentionWeightInit with the default initialisation kept
AttentionWeightInit_Default(default) == default

\* the value SelfAttention.__init__ leaves in attention.weight
AttentionWeightInit(default) == ZerosLike(default)

\* SelfAttention.__init__: both convolutions are built without bias
SelfAttentionInit(in_channels, out_channels, seed, salt) ==
    [in_channels  |-> in_channels,
     out_channels |-> out_channels,
     conv         |-> [weight |-> DefaultWeight(seed, salt), bias |-> 0],
     attention    |-> [weight |-> AttentionWeightInit(DefaultWeight(seed, salt + 1)),
                       bias |-> 0]]

\* the value of a convolution at the sampled position, xv the input there
RECURSIVE Dot(_, _, _)
Dot(weight, xv, k) == IF k = 0 THEN 0 ELSE weight[k] * xv[k] + Dot(weight, xv, k - 1)

ConvValue(conv, xv) == Dot(conv.weight, xv, Cardinality(Taps)) + conv.bias

\* torch.sigmoid in thousandths (rounded)
Sigmoid1000(z) ==
    LET a == IF z < 0 THEN 0 - z ELSE z
        t == CASE a = 0 -> 500 [] a = 1 -> 731 [] a = 2 -> 881 [] a = 3 -> 953
               [] a = 4 -> 982 [] a = 5 -> 993 [] a = 6 -> 998 [] OTHER -> 999
    IN  IF z < 0 THEN 1000 - t ELSE t

\* SelfAttention.forward on x, whose values at the sampled position are xv.
\* x and xv are the arguments, out is the returned tensor; features,
\* attention_mask (thousandths) and value (thousandths) are the values of
\* the two branches and of their product at the sampled position
SelfAttentionForward(sa, x, xv, name) ==
    LET features == Conv2d(x, sa.in_channels, sa.out_channels, 3, 1, 1, 1, <<name, "conv">>)
        logits   == Conv2d(x, sa.in_channels, sa.out_channels, 3, 1, 1, 1,
                           <<name, "attention">>)
        fv       == ConvValue(sa.conv, xv)
        mask     == Sigmoid1000(ConvValue(sa.attention, xv))
    IN  [x |-> x,
         xv |-> xv,
         out |-> IF IsErr(features) \/ IsErr(logits) THEN ERR
                 ELSE Fresh(features.c, features.h, features.w, <<name, "mul">>,
                            <<features.by, logits.by>>),
         features |-> fv,
         attention_mask |-> mask,
         value |-> fv * mask]

---------------------------------------------------------------------------
(* DecoderDistillation.                                                    *)

DecoderDistillationInit(in_channels, num_out_ch) ==
    [in_channels |-> in_channels, num_out_ch |-> num_out_ch]

\* a + b on tensors of one shape
Add(a, b, by) ==
    IF IsErr(a) \/ IsErr(b) \/ a.c # b.c \/ a.h # b.h \/ a.w # b.w
    THEN ERR
    ELSE Fresh(a.c, a.h, a.w, by, <<a.by, b.by>>)

\* DecoderDistillation.forward: the call's arguments and its result
DecoderDistillationForward(dec, features_low, features_sa, name) ==
    LET c   == dec.in_channels
        a0  == Add(features_low, features_sa, <<name, "add">>)
        a1  == Conv2d(a0, c, c \div 2, 3, 1, 1, 1, <<name, "conv3x3_final1">>)
        a2  == Interpolate(a1, a1.h * 2, a1.w * 2)
        a3  == Conv2d(a2, c \div 2, c \div 4, 3, 1, 1, 1, <<name, "conv3x3_final2">>)
        a4  == Interpolate(a3, a3.h * 2, a3.w * 2)
        a5  == Conv2d(a4, c \div 4, dec.num_out_ch, 3, 1, 1, 1, <<name, "conv3x3_final3">>)
    IN  [features_low |-> features_low, features_sa |-> features_sa, out |-> a5]

---------------------------------------------------------------------------
(* ModelDeepLabV3PlusBranchedSA.                                           *)

TaskNames == {"semseg", "depth", "normals"}

\* outputs_desc, a dict: its items in iteration order, the keys distinct
OutputsDescs ==
    {od \in UNION {[1..n -> [task : TaskNames, num_ch : 1..MaxCh]] : n \in 0..MaxTasks} :
        \A i, j \in 1..Len(od) : od[i].task = od[j].task => i = j}

\* sum(outputs_desc.values())
RECURSIVE SumValues(_)
SumValues(od) == IF od = <<>> THEN 0 ELSE Head(od).num_ch + SumValues(Tail(od))

NoPool == [kernel_size |-> <<0, 0>>, stride |-> <<0, 0>>]

NoModel ==
    [status |-> "none", outputs_desc |-> <<>>, encoder |-> NoEncoder,
     aspp_semseg |-> [in_channels |-> 0, out_channels |-> 0, rates |-> <<>>, avg_pool |-> NoPool],
     assp_depth |-> [in_channels |-> 0, out_channels |-> 0, rates |-> <<>>, avg_pool |-> NoPool],
     decoder_semseg |-> DecoderDeeplabV3pInit(0, 0, 0),
     decoder_depth |-> DecoderDeeplabV3pInit(0, 0, 0),
     sa_from_depth2semseg |-> [in_channels |-> 0, out_channels |-> 0,
                               conv |-> [weight |-> <<>>, bias |-> 0],
                               attention |-> [weight |-> <<>>, bias |-> 0]],
     sa_from_semseg2depth |-> [in_channels |-> 0, out_channels |-> 0,
                               conv |-> [weight |-> <<>>, bias |-> 0],
                               attention |-> [weight |-> <<>>, bias |-> 0]],
     decoder_semseg2 |-> DecoderDistillationInit(0, 0),
     decoder_depth2 |-> DecoderDistillationInit(0, 0)]

\* the channel counts of the semseg and of the depth branch
BranchChannels(ch_out) == [semseg |-> ch_out - 1, depth |-> 1]

\* ModelDeepLabV3PlusBranchedSA.__init__ when no layer constructor raises
ModelInit(name, outputs_desc, seed) ==
    LET ch_out == SumValues(outputs_desc)
        counts == get_encoder_channel_counts(name)
        ch_out_encoder_bottleneck == counts.ch_out_encoder_bottleneck
        ch_out_encoder_4x == counts.ch_out_encoder_4x
        br == BranchChannels(ch_out)
    IN  [status |-> "ok",
         outputs_desc |-> outputs_desc,
         encoder |-> EncoderInit(name, <<FALSE, FALSE, TRUE>>),
         aspp_semseg |-> ASPPInit(ch_out_encoder_bottleneck, 256, <<3, 6, 9>>),
         decoder_semseg |-> DecoderDeeplabV3pInit(256, ch_out_encoder_4x, br.semseg),
         assp_depth |-> ASPPInit(ch_out_encoder_bottleneck, 256, <<3, 6, 9>>),
         decoder_depth |-> DecoderDeeplabV3pInit(256, ch_out_encoder_4x, br.depth),
         sa_from_depth2semseg |-> SelfAttentionInit(256, 256, seed, 0),
         sa_from_semseg2depth |-> SelfAttentionInit(256, 256, seed, 1),
         decoder_semseg2 |-> DecoderDistillationInit(256, br.semseg),
         decoder_depth2 |-> DecoderDistillationInit(256, br.depth)]

\* the outcomes of __init__: a convolution cannot be built with a negative
\* number of output channels; whether one with zero output channels can be
\* built depends on the version of the tensor library
InitOutcomes(outputs_desc) ==
    LET semseg_ch == BranchChannels(SumValues(outputs_desc)).semseg
    IN  IF semseg_ch < 0 THEN {"failed"}
        ELSE IF semseg_ch = 0 THEN {"ok", "failed"}
        ELSE {"ok"}

\* lines 70-76 of forward: the concatenated predictions split by outputs_desc
RECURSIVE SplitFrom(_, _, _, _)
SplitFrom(od, offset, intermediate_predictions, final_predictions) ==
    IF od = <<>> THEN [t \in {} |-> <<ERR, ERR>>]
    ELSE LET task   == Head(od).task
             num_ch == Head(od).num_ch
             rest   == SplitFrom(Tail(od), offset + num_ch, intermediate_predictions,
                                 final_predictions)
             mine   == <<SliceChannels(intermediate_predictions, offset, offset + num_ch),
                         SliceChannels(final_predictions, offset, offset + num_ch)>>
         IN  [t \in (DOMAIN rest) \cup {task} |-> IF t = task THEN mine ELSE rest[t]]

\* SplitOutputs with the offset never advanced
SplitOutputs_NoAdvance(od, intermediate_predictions, final_predictions) ==
    [t \in {od[i].task : i \in 1..Len(od)} |->
        LET num_ch == (CHOOSE e \in {od[i] : i \in 1..Len(od)} : e.task = t).num_ch
        IN  <<SliceChannels(intermediate_predictions, 0, num_ch),
              SliceChannels(final_predictions, 0, num_ch)>>]

SplitOutputs(od, intermediate_predictions, final_predictions) ==
    SplitFrom(od, 0, intermediate_predictions, final_predictions)

\* AttentionExchange with each head fed the attention computed from its own
\* branch
AttentionExchange_Uncrossed(m, features_semseg, features_depth, xv) ==
    LET attention_from_semseg2depth ==
            SelfAttentionForward(m.sa_from_semseg2depth, features_semseg,
                                 xv.semseg, "sa_from_semseg2depth")
        attention_from_depth2semseg ==
            SelfAttentionForward(m.sa_from_depth2semseg, features_depth,
                                 xv.depth, "sa_from_depth2semseg")
    IN  [sa_from_semseg2depth |-> attention_from_semseg2depth,
         sa_from_depth2semseg |-> attention_from_depth2semseg,
         decoder_semseg2 |->
             DecoderDistillationForward(m.decoder_semseg2, features_semseg,
                                        attention_from_semseg2depth.out, "decoder_semseg2"),
         decoder_depth2 |->
             DecoderDistillationForward(m.decoder_depth2, features_depth,
                                        attention_from_depth2semseg.out, "decoder_depth2")]

\* lines 58-62 of forward: the attention exchange between the two branches.
\* features_semseg and features_depth are features_before_final_layer_semseg
\* and features_before_final_layer_depth; xv gives their values at the
\* sampled position
AttentionExchange(m, features_semseg, features_depth, xv) ==
    LET attention_from_semseg2depth ==
            SelfAttentionForward(m.sa_from_semseg2depth, features_semseg,
                                 xv.semseg, "sa_from_semseg2depth")
        attention_from_depth2semseg ==
            SelfAttentionForward(m.sa_from_depth2semseg, features_depth,
                                 xv.depth, "sa_from_depth2semseg")
    IN  [sa_from_semseg2depth |-> attention_from_semseg2depth,
         sa_from_depth2semseg |-> attention_from_depth2semseg,
         decoder_semseg2 |->
             DecoderDistillationForward(m.decoder_semseg2, features_semseg,
                                        attention_from_depth2semseg.out, "decoder_semseg2"),
         decoder_depth2 |->
             DecoderDistillationForward(m.decoder_depth2, features_depth,
                                        attention_from_semseg2depth.out, "decoder_depth2")]

NoASPPCall == [out |-> ERR, pooled |-> ERR, avg_pool |-> NoPool]

NoDecoderCall == [ret |-> <<ERR, ERR>>, feature_cat |-> ERR]

NoSACall ==
    [x |-> ERR, xv |-> <<>>, out |-> ERR, features |-> 0, attention_mask |-> 0, value |-> 0]

NoHeadCall == [features_low |-> ERR, features_sa |-> ERR, out |-> ERR]

NoExchange ==
    [sa_from_semseg2depth |-> NoSACall, sa_from_depth2semseg |-> NoSACall,
     decoder_semseg2 |-> NoHeadCall, decoder_depth2 |-> NoHeadCall]

NoOut == [t \in {} |-> <<ERR, ERR>>]

NoResult ==
    [status |-> "none", x |-> ERR, features |-> NoFeatures,
     aspp_semseg |-> NoASPPCall, assp_depth |-> NoASPPCall,
     decoder_semseg |-> NoDecoderCall, decoder_depth |-> NoDecoderCall,
     exchange |-> NoExchange,
     intermediate_predictions |-> ERR, final_predictions |-> ERR, out |-> NoOut]

---------------------------------------------------------------------------
(* Operations.                                                             *)

\* model = ModelDeepLabV3PlusBranchedSA(cfg, outputs_desc)
Construct(name, outputs_desc, seed) ==
    /\ model.status = "none"
    /\ \E outcome \in InitOutcomes(outputs_desc) :
          model' = IF outcome = "ok"
                   THEN ModelInit(name, outputs_desc, seed)
                   ELSE [NoModel EXCEPT !.status = "failed", !.outputs_desc = outputs_desc]
    /\ UNCHANGED <<result, encoder, pyramid>>

\* model(x), x of shape (N, 3, h, w): ModelDeepLabV3PlusBranchedSA.forward.
\* result is what the call computed up to its return or to the first
\* exception (status), with the calls it made to the submodules; a call
\* that was not reached is recorded as No...Call.  xv gives the values of
\* the two branches' feature tensors at the sampled position.  The ASPP
\* calls that were reached leave their pooling windows in the model
Forward(h, w, xv) ==
    /\ model.status = "ok"
    /\ \E x \in {Image(h, w)} :
       \E enc \in {EncoderForward(model.encoder, x)} :
       \E a_s \in {IF enc.ok
                   THEN ASPPForward(model.aspp_semseg, enc.out[MaxKey(enc.out)], "aspp_semseg")
                   ELSE NoASPPCall} :
       \E d_s \in {IF ~IsErr(a_s.out) /\ 4 \in DOMAIN enc.out
                   THEN DecoderDeeplabV3pForward(model.decoder_semseg, a_s.out, enc.out[4],
                                                 "decoder_semseg")
                   ELSE NoDecoderCall} :
       \E a_d \in {IF ~IsErr(d_s.ret[1])
                   THEN ASPPForward(model.assp_depth, enc.out[MaxKey(enc.out)], "assp_depth")
                   ELSE NoASPPCall} :
       \E d_d \in {IF ~IsErr(a_d.out)
                   THEN DecoderDeeplabV3pForward(model.decoder_depth, a_d.out, enc.out[4],
                                                 "decoder_depth")
                   ELSE NoDecoderCall} :
       \E intermediate_predictions \in
              {Cat(<<Interpolate(d_s.ret[1], h, w), Interpolate(d_d.ret[1], h, w)>>)} :
       \E ex \in {IF ~IsErr(intermediate_predictions)
                  THEN AttentionExchange(model, d_s.ret[2], d_d.ret[2], xv)
                  ELSE NoExchange} :
       \E final_predictions \in
              {Cat(<<Interpolate(ex.decoder_semseg2.out, h, w),
                     Interpolate(ex.decoder_depth2.out, h, w)>>)} :
          /\ result' =
                [status |-> IF ~enc.ok THEN "AssertionError"
                            ELSE IF ~IsErr(a_s.out) /\ 4 \notin DOMAIN enc.out THEN "KeyError"
                            ELSE IF IsErr(final_predictions) THEN "RuntimeError"
                            ELSE "ok",
                 x |-> x,
                 features |-> IF enc.ok THEN enc.out ELSE NoFeatures,
                 aspp_semseg |-> a_s, assp_depth |-> a_d,
                 decoder_semseg |-> d_s, decoder_depth |-> d_d,
                 exchange |-> ex,
                 intermediate_predictions |-> intermediate_predictions,
                 final_predictions |-> final_predictions,
                 out |-> IF IsErr(final_predictions) THEN NoOut
                         ELSE SplitOutputs(model.outputs_desc, intermediate_predictions,
                                           final_predictions)]
          /\ model' =
                [model EXCEPT
                    !.aspp_semseg.avg_pool = IF a_s = NoASPPCall THEN @ ELSE a_s.avg_pool,
                    !.assp_depth.avg_pool  = IF a_d = NoASPPCall THEN @ ELSE a_d.avg_pool]
    /\ UNCHANGED <<encoder, pyramid>>

Init ==
    /\ model = NoModel
    /\ result = NoResult
    /\ encoder = NoEncoder
    /\ pyramid = NoPyramid

OnesPatch == [k \in Taps |-> 1]

Ones == [semseg |-> OnesPatch, depth |-> OnesPatch]

\* the model built for every outputs_desc
Next ==
    \/ \E name \in EncoderNames, od \in OutputsDescs : Construct(name, od, 1)
    \/ \E h, w \in {16, 24} : Forward(h, w, Ones)

Spec == Init /\ [][Next]_vars

StandardDesc == <<[task |-> "semseg", num_ch |-> 2], [task |-> "depth", num_ch |-> 1]>>

ModelSides == {4 * k : k \in 1..MaxSide}

\* the model run on images of every size
NextSizes ==
    \/ \E name \in EncoderNames : Construct(name, StandardDesc, 1)
    \/ \E h, w \in ModelSides : Forward(h, w, Ones)

SpecSizes == Init /\ [][NextSizes]_vars

\* the model built under every seed and run on every sampled feature value
NextSA ==
    \/ \E seed \in Seeds : Construct("resnet34", StandardDesc, seed)
    \/ \E h, w \in {16, 24}, p \in Patches :
          \/ Forward(h, w, [semseg |-> p, depth |-> OnesPatch])
          \/ Forward(h, w, [semseg |-> OnesPatch, depth |-> p])

SpecSA == Init /\ [][NextSA]_vars

\* a stand-alone Encoder built with every setting of the flags and run on
\* images of every size
NextEncoder ==
    \/ \E name \in EncoderNames, flags \in Flags : ConstructEncoder(name, flags)
    \/ \E h, w \in EncoderSides : CallEncoder(h, w)

SpecEncoder == Init /\ [][NextEncoder]_vars

---------------------------------------------------------------------------
(* Properties.                                                             *)

Tasks(od) == {od[i].task : i \in 1..Len(od)}

\* the branch a layer belongs to
BranchOf(by) ==
    IF by[1] \in {"aspp_semseg", "decoder_semseg", "decoder_semseg2"} THEN "semseg"
    ELSE IF by[1] \in {"assp_depth", "decoder_depth", "decoder_depth2"} THEN "depth"
    ELSE "none"

\* the bottleneck features of the last forward pass
Bottleneck(r) == r.features[MaxKey(r.features)]

Shape(t) == <<t.c, t.h, t.w>>

\* outputs_desc names exactly semseg and depth, with the channel counts of
\* the fixed split: semseg = total - 1, depth = 1
WellFormed(od) ==
    /\ Len(od) = 2
    /\ \E i, j \in 1..Len(od) :
          /\ od[i].task = "semseg" /\ od[i].num_ch = SumValues(od) - 1
          /\ od[j].task = "depth" /\ od[j].num_ch = 1

\* C1: a model is only ever constructed from a well-formed outputs_desc:
\* __init__ fails on every other one.  The statement is taken over the
\* descriptions that leave the semseg branch at least one channel, where the
\* outcome of __init__ does not depend on the version of the tensor library.
C1_MalformedRejected ==
    (model.status = "ok" /\ BranchChannels(SumValues(model.outputs_desc)).semseg >= 1)
        => WellFormed(model.outputs_desc)

\* C2: the second element both DecoderDeeplabV3p calls of a forward pass
\* return is the output of conv3x3_final, the tensor features_to_predictions
\* consumes, and that tensor is what the SelfAttention modules and the
\* DecoderDistillation heads are given.
C2_ReturnsFusedFeatures ==
    result.status = "ok" =>
        /\ result.decoder_semseg.ret[2] = result.decoder_semseg.feature_cat
        /\ result.decoder_depth.ret[2] = result.decoder_depth.feature_cat
        /\ result.decoder_semseg.ret[1].of = <<result.decoder_semseg.ret[2].by>>
        /\ result.exchange.sa_from_semseg2depth.x = result.decoder_semseg.feature_cat
        /\ result.exchange.sa_from_depth2semseg.x = result.decoder_depth.feature_cat
        /\ result.exchange.decoder_semseg2.features_low = result.decoder_semseg.feature_cat
        /\ result.exchange.decoder_depth2.features_low = result.decoder_depth.feature_cat

\* C3: when outputs_desc names semseg and depth (in either order), every
\* channel of the intermediate and of the final slice returned under a task
\* name was produced by that task's own branch.  The statement is taken over
\* the descriptions whose counts are those of the fixed split, so that only
\* the order of the two tasks is left free.
C3_SlicesOfOwnBranch ==
    (result.status = "ok" /\ WellFormed(model.outputs_desc)) =>
        \A t \in DOMAIN result.out : \A i \in 1..2 :
            LET ls == Labels(result.out[t][i].chans)
            IN  \A k \in 1..Len(ls) : BranchOf(ls[k].by) = t

\* the slices of the tasks, concatenated in the order of outputs_desc
RECURSIVE ConcatSlices(_, _, _)
ConcatSlices(od, out, i) ==
    IF od = <<>> THEN <<>>
    ELSE Labels(out[Head(od).task][i].chans) \o ConcatSlices(Tail(od), out, i)

\* C4: the per-task slices have the declared channel counts and,
\* concatenated in the order of outputs_desc, give back the intermediate and
\* the final concatenated tensor channel by channel: the tasks' channel
\* ranges are contiguous, disjoint, in iteration order and cover every
\* channel once.
C4_SplitRoundTrip ==
    result.status = "ok" =>
        LET od == model.outputs_desc
        IN  /\ DOMAIN result.out = Tasks(od)
            /\ \A j \in 1..Len(od) : \A i \in 1..2 :
                   result.out[od[j].task][i].c = od[j].num_ch
            /\ ConcatSlices(od, result.out, 1) = Labels(result.intermediate_predictions.chans)
            /\ ConcatSlices(od, result.out, 2) = Labels(result.final_predictions.chans)
            /\ result.intermediate_predictions.c = SumValues(od)
            /\ result.final_predictions.c = SumValues(od)

\* a forward pass returned slices for three tasks of more than one channel
C4_Witness ==
    /\ result.status = "ok"
    /\ Len(model.outputs_desc) = 3
    /\ \A j \in 1..3 : model.outputs_desc[j].num_ch = 2

PowersOfTwo == {1, 2, 4, 8, 16, 32}

\* C5 as claimed: whenever Encoder.forward completes, every key of the
\* pyramid is one of 1, 2, 4, 8, 16, 32.
C5_KeysPowersOfTwo == pyramid.status = "ok" => DOMAIN pyramid.out \subseteq PowersOfTwo

\* C5 as amended: on an input whose width is a multiple of 32 Encoder.forward
\* completes and every key is one of 1, 2, 4, 8, 16, 32; on any other width on
\* which it completes every key divides the width.
C5_KeysDivideWidth ==
    /\ (pyramid.status # "none" /\ pyramid.x.w % 32 = 0) =>
           (pyramid.status = "ok" /\ DOMAIN pyramid.out \subseteq PowersOfTwo)
    /\ pyramid.status = "ok" => \A k \in DOMAIN pyramid.out : pyramid.x.w % k = 0

\* a pyramid of a width of 64 with a flag set, and every stage stored
C5_Witness ==
    /\ pyramid.status = "ok"
    /\ pyramid.x.w = 64
    /\ encoder.replace_stride_with_dilation = <<TRUE, FALSE, FALSE>>
    /\ DOMAIN pyramid.out = {1, 2, 4, 8, 16}

\* C6: on an input whose height and width are multiples of 32
\* Encoder.forward completes; the entry at key 4 has size (H/4, W/4), the
\* entry at the largest key s has size (H/s, W/s); s = 32 with no flag set
\* and s = 16 with the flags (False, False, True).
C6_PyramidSizes ==
    (pyramid.status # "none" /\ pyramid.x.h % 32 = 0 /\ pyramid.x.w % 32 = 0) =>
        /\ pyramid.status = "ok"
        /\ 4 \in DOMAIN pyramid.out
        /\ pyramid.out[4].h * 4 = pyramid.x.h
        /\ pyramid.out[4].w * 4 = pyramid.x.w
        /\ LET s == MaxKey(pyramid.out)
           IN  /\ pyramid.out[s].h * s = pyramid.x.h
               /\ pyramid.out[s].w * s = pyramid.x.w
               /\ encoder.replace_stride_with_dilation = <<FALSE, FALSE, FALSE>> => s = 32
               /\ encoder.replace_stride_with_dilation = <<FALSE, FALSE, TRUE>> => s = 16

\* a 64 x 32 image went through an encoder built with (False, False, True)
C6_Witness ==
    /\ pyramid.status = "ok"
    /\ pyramid.x.h = 64 /\ pyramid.x.w = 32
    /\ encoder.replace_stride_with_dilation = <<FALSE, FALSE, TRUE>>
    /\ MaxKey(pyramid.out) = 16

SAModules(m) == {m.sa_from_depth2semseg, m.sa_from_semseg2depth}

SACalls(r) == {r.exchange.sa_from_depth2semseg, r.exchange.sa_from_semseg2depth}

\* C7: in a constructed model every weight of both gating convolutions is
\* zero and the gate has no bias; in every forward pass the gate is 0.5 and
\* SelfAttention.forward returns 0.5 times the feature projection, whatever
\* the input.
C7_GateIsHalf ==
    /\ model.status = "ok" =>
           \A sa \in SAModules(model) :
               /\ \A k \in DOMAIN sa.attention.weight : sa.attention.weight[k] = 0
               /\ sa.attention.bias = 0
    /\ result.status = "ok" =>
           \A call \in SACalls(result) :
               /\ call.attention_mask = 500
               /\ call.value = 500 * call.features

\* a forward pass whose sampled input is neither zero nor uniform and whose
\* feature projection is not zero there
C7_Witness ==
    /\ result.status = "ok"
    /\ \E call \in SACalls(result) :
          /\ call.xv \in Patches
          /\ call.xv[1] # call.xv[2]
          /\ call.features # 0 /\ call.value = 500 * call.features

C9_ASPPKeepsSize ==
    \A call \in {[a |-> result.aspp_semseg, m |-> model.aspp_semseg],
                 [a |-> result.assp_depth, m |-> model.assp_depth]} :
        call.a # NoASPPCall =>
            LET x == Bottleneck(result)
            IN  /\ ~IsErr(call.a.out)
                /\ call.a.out.h = x.h /\ call.a.out.w = x.w
                /\ call.a.out.c = call.m.out_channels
                /\ Shape(call.a.pooled) = <<x.c, 1, 1>>

\* an ASPP call on a 1 x 2 input in a pass that stopped before the other
\* ASPP module, whose window is still that of an earlier pass on a 2 x 1 input
C9_Witness ==
    /\ result.aspp_semseg # NoASPPCall
    /\ result.assp_depth = NoASPPCall
    /\ Bottleneck(result).h = 1 /\ Bottleneck(result).w = 2
    /\ Shape(result.aspp_semseg.out) = <<256, 1, 2>>
    /\ model.assp_depth.avg_pool.kernel_size = <<2, 1>>

\* C10: the semseg head is given the features the semseg decoder returned
\* and the output of the SelfAttention module that was run on the features
\* the depth decoder returned; the depth head is given the mirror image; the
\* two arguments of each head have one shape.
C10_CrossedExchange ==
    result.status = "ok" =>
        LET ex == result.exchange
        IN  /\ ex.decoder_semseg2.features_low = result.decoder_semseg.ret[2]
            /\ ex.decoder_semseg2.features_sa = ex.sa_from_depth2semseg.out
            /\ ex.decoder_semseg2.features_sa.by[1] = "sa_from_depth2semseg"
            /\ ex.sa_from_depth2semseg.x = result.decoder_depth.ret[2]
            /\ BranchOf(ex.sa_from_depth2semseg.x.of[1]) = "depth"
            /\ ex.decoder_depth2.features_low = result.decoder_depth.ret[2]
            /\ ex.decoder_depth2.features_sa = ex.sa_from_semseg2depth.out
            /\ ex.decoder_depth2.features_sa.by[1] = "sa_from_semseg2depth"
            /\ ex.sa_from_semseg2depth.x = result.decoder_semseg.ret[2]
            /\ BranchOf(ex.sa_from_semseg2depth.x.of[1]) = "semseg"
            /\ Shape(ex.decoder_semseg2.features_low) = Shape(ex.decoder_semseg2.features_sa)
            /\ Shape(ex.decoder_depth2.features_low) = Shape(ex.decoder_depth2.features_sa)

\* both heads ran on 256-channel features of a 24 x 16 image
C10_Witness ==
    /\ result.status = "ok"
    /\ Shape(result.exchange.decoder_semseg2.features_sa) = <<256, 6, 4>>
    /\ Shape(result.exchange.decoder_depth2.features_low) = <<256, 6, 4>>
    /\ BranchOf(result.exchange.decoder_semseg2.out.by) = "semseg"

=============================================================================
